---- MODULE Spec2Model ----
(***************************************************************************)
(* Model of client/websocket_client.go: the WebSocket subscription and     *)
(* reconnection engine (WebSocketClient).                                  *)
(*                                                                         *)
(* Every goroutine of the client is a task with a program counter.  One    *)
(* action is one critical section of ws.mu, or one blocking call made      *)
(* outside the lock (credential derivation, dial, transport read/write).   *)
(* A task is identified by <<kind, i>>: <<"c", i>> is a caller goroutine,  *)
(* <<"rl", h>>, <<"pl", h>> are the handleMessages and pingLoop goroutines *)
(* started by the Connect() that installed transport handle h, and         *)
(* <<"tm", h>> is the time.AfterFunc timer armed by read-loop h.           *)
(***************************************************************************)
EXTENDS Integers, Sequences, FiniteSets, TLC

\* ------------------------------------------------------------------ bounds
MaxDials == 2          \* successful dials (transport handles) per behaviour
MaxLen == 3            \* longest ws.options.AssetIDs list explored
MaxFrames == 2         \* frames received per behaviour
MaxElems == 2          \* longest JSON array frame explored

Handles == 1..MaxDials
Callers == {<<"c", 1>>}
\* A second goroutine of the application, which calls Subscribe() while the
\* first one is at work.
SecondCallers == {<<"c", 2>>}
AppTasks == Callers \cup SecondCallers
Timers == {<<"tm", h>> : h \in Handles}
ReadLoops == {<<"rl", h>> : h \in Handles}
PingLoops == {<<"pl", h>> : h \in Handles}
Tasks == AppTasks \cup Timers \cup ReadLoops \cup PingLoops
NoTask == <<"none", 0>>

InitialAssetIDs == {<<"A", "B">>}
\* The asset ids of the registry: full lists as options.AssetIDs, duplicates
\* included, and every list of ids as the argument of Unsubscribe().
AssetIds == {"A", "B", "C"}
FullLists == [1..MaxLen -> AssetIds]
UnsubscribeLists == UNION {[1..n -> AssetIds] : n \in 0..MaxLen}
\* The options and the arguments of two concurrent Subscribe() calls.
PairAssetIDs == {<<"B">>}
PairArgs == {<<"A">>, <<"C">>}
SubscribeArgs == {<<"A">>}
UnsubscribeArgs == {<<"A">>}
\* The WebSocketClientOptions explored: auto-reconnect off, on without a cap
\* (MaxReconnectAttempts = 0), on with a cap, and a proxy URL url.Parse rejects.
Options ==
    {[AutoReconnect |-> FALSE, MaxReconnectAttempts |-> 0, ProxyUrl |-> ""],
     [AutoReconnect |-> TRUE, MaxReconnectAttempts |-> 0, ProxyUrl |-> ""],
     [AutoReconnect |-> TRUE, MaxReconnectAttempts |-> 1, ProxyUrl |-> ""],
     [AutoReconnect |-> FALSE, MaxReconnectAttempts |-> 0, ProxyUrl |-> "malformed"]}
NoFrame == <<"none">>

\* The event kinds parseAndDispatch switches on (types.EventTypeBook, ...).
EventTypes == {"book", "price_change", "tick_size_change", "last_trade_price"}

\* The fields of WebSocketCallbacks that parseAndDispatch and handleError use.
AllCallbacks == {"OnBook", "OnPriceChange", "OnTickSizeChange", "OnLastTradePrice",
                 "OnMessage", "OnError"}

\* The callback registrations explored: the callbacks that are not nil.
CallbackSets ==
    {AllCallbacks,
     {},
     {"OnMessage", "OnError"},
     AllCallbacks \ {"OnMessage"}}

\* The raw sub-messages explored inside a JSON array frame: JSON objects of
\* two of the event kinds.
ArrayKinds == {"book", "last_trade_price"}

ArrayBodies == UNION {[1..n -> {[et |-> k] : k \in ArrayKinds}] : n \in 0..MaxElems}

\* The text frame whose payload is the literal PONG.
PongFrame == [mt |-> "text", body |-> "PONG", elems |-> << >>]

\* The frames conn.ReadMessage() may return: a binary frame, the text PONG, the
\* JSON literal null, text that is not JSON, one JSON object, a JSON array.
Frames ==
    {[mt |-> "binary", body |-> "object", elems |-> <<[et |-> "book"]>>],
     PongFrame,
     [mt |-> "text", body |-> "null", elems |-> << >>],
     [mt |-> "text", body |-> "garbage", elems |-> << >>]}
    \cup {[mt |-> "text", body |-> "object", elems |-> <<[et |-> k]>>] :
             k \in EventTypes \cup {"unknown"}}
    \cup {[mt |-> "text", body |-> "array", elems |-> e] : e \in ArrayBodies}

\* The batched frames explored: JSON arrays of one or more raw sub-messages,
\* each a decodable event or an object whose event type is not known.
BatchKinds == {"book", "unknown"}

BatchFrames ==
    {[mt |-> "text", body |-> "array", elems |-> e] :
        e \in UNION {[1..n -> {[et |-> k] : k \in BatchKinds}] : n \in 1..MaxElems}}

\* Two single-event frames that can be told apart, and the PONG between them.
EventFrames ==
    {[mt |-> "text", body |-> "object", elems |-> <<[et |-> k]>>] :
        k \in {"book", "price_change"}} \cup {PongFrame}

NoRx == [f |-> 0, i |-> 0, msgs |-> << >>]

VARIABLES
    conn,               \* ws.conn: 0 = nil, else the transport handle
    handle,             \* state of each transport handle
    assetIDs,           \* ws.options.AssetIDs
    reconnectAttempts,  \* ws.reconnectAttempts
    isConnecting,       \* ws.isConnecting
    shouldReconnect,    \* ws.shouldReconnect
    pingTicker,         \* ws.pingTicker: 0 = nil, else the ticker of pingLoop h
    reconnectTimer,     \* ws.reconnectTimer: 0 = nil, else the timer of read-loop h
    tickerStopped,      \* tickerStopped[h]: ticker h had Stop() called
    mu,                 \* NoTask, or the task that holds ws.mu and never releases it
    opts,               \* ws.options: AutoReconnect, MaxReconnectAttempts, ProxyUrl
    pc,                 \* program counter of every task
    loc,                \* per-task locals
    ret,                \* what the caller's last Connect/Subscribe call returned
    lastFrame,          \* asset list of the last subscribe frame written, or NoFrame
    fresh,              \* a dial succeeded and OnReconnect has not been invoked since
    failedRedials,      \* timer-driven Connect() calls that failed since the last successful
                        \* dial or caller Connect()
    discReturned,       \* a Disconnect() has returned and the caller has not called Connect() since
    callbacks,          \* ws.callbacks: the names of the callbacks that are not nil
    rx,                 \* processMessage's loop: frame number, raw messages left, index of the next
    calls,              \* the callbacks invoked for received frames, in order of invocation
    received,           \* the frames ReadMessage has returned, in order
    invoked             \* invoked[h]: the session callbacks the loops of handle h have invoked

vars == <<conn, handle, assetIDs, reconnectAttempts, isConnecting, shouldReconnect,
          pingTicker, reconnectTimer, tickerStopped, mu, opts, pc, loc, ret,
          lastFrame, fresh, failedRedials, discReturned, callbacks, rx, calls,
          received, invoked>>

\* The state of frame processing and dispatch.
msgVars == <<callbacks, rx, calls, received>>

session == <<conn, handle, assetIDs, reconnectAttempts, isConnecting, shouldReconnect,
             pingTicker, reconnectTimer, tickerStopped>>

NoLoc == [h |-> 0, sc |-> 0, ids |-> << >>, attempt |-> 0]

\* No session callback invoked yet: OnConnect counts the invocations by the
\* Connect() that installed handle h, OnDisconnect those by handleMessages h,
\* OnReconnect lists the attempt numbers it passed, and OnError counts the
\* errors pingLoop h handed to handleError.
NoneInvoked == [OnConnect |-> 0, OnDisconnect |-> 0, OnReconnect |-> << >>, OnError |-> 0]

\* NewWebSocketClient: the fields of the client right after construction, with
\* options.AssetIDs one of lists.
ClientStart(lists) ==
    /\ conn = 0
    /\ handle = [h \in Handles |-> "unused"]
    /\ assetIDs \in lists
    /\ reconnectAttempts = 0
    /\ isConnecting = FALSE
    /\ shouldReconnect = TRUE
    /\ pingTicker = 0
    /\ reconnectTimer = 0
    /\ tickerStopped = [h \in Handles |-> FALSE]
    /\ mu = NoTask
    /\ opts \in Options
    /\ pc = [t \in Tasks |-> IF t \in AppTasks THEN "idle" ELSE "unused"]
    /\ loc = [t \in Tasks |-> NoLoc]
    /\ ret = [c \in AppTasks |-> "none"]
    /\ lastFrame = NoFrame
    /\ fresh = FALSE
    /\ failedRedials = 0
    /\ discReturned = FALSE
    /\ invoked = [h \in Handles |-> NoneInvoked]

ClientInit == ClientStart(InitialAssetIDs)

\* No frame has been received and no callback invoked.
MsgStart ==
    /\ rx = [h \in Handles |-> NoRx]
    /\ calls = << >>
    /\ received = << >>

\* The client right after construction, with every callback registered.
Init == ClientInit /\ MsgStart /\ callbacks = AllCallbacks

\* ------------------------------------------------------------------ helpers
LockFree == mu = NoTask

\* IsConnected(): ws.conn != nil
IsConnected == conn # 0

\* Where a task goes when its Connect()/Subscribe() returns, and what the
\* caller sees returned (the timer callback only logs the result).
Returned(t) == IF t \in AppTasks THEN "idle" ELSE "done"

Return(t, v) == IF t \in AppTasks THEN [ret EXCEPT ![t] = v] ELSE ret

\* A timer-driven Connect() that returns an error is a failed redial.
FailedRedial(t) == IF t \in Timers THEN failedRedials + 1 ELSE failedRedials

RECURSIVE Contains(_, _)
Contains(s, x) == IF s = << >> THEN FALSE
                  ELSE IF Head(s) = x THEN TRUE ELSE Contains(Tail(s), x)

\* A filter loop that drops only the first occurrence of each listed id.
RECURSIVE FilterFirstOccurrence(_, _)
FilterFirstOccurrence(ids, unsub) ==
    IF unsub = << >> THEN ids
    ELSE LET x == Head(unsub)
             first == IF Contains(ids, x)
                      THEN CHOOSE k \in 1..Len(ids) :
                              ids[k] = x /\ \A j \in 1..(k - 1) : ids[j] # x
                      ELSE 0
             rest == IF first = 0 THEN ids
                     ELSE SubSeq(ids, 1, first - 1) \o SubSeq(ids, first + 1, Len(ids))
         IN  FilterFirstOccurrence(rest, Tail(unsub))

\* Unsubscribe's filter loop: keep, in order, the ids not listed in unsub.
RECURSIVE Filter(_, _)
Filter(ids, unsub) ==
    IF ids = << >> THEN << >>
    ELSE IF Contains(unsub, Head(ids)) THEN Filter(Tail(ids), unsub)
         ELSE <<Head(ids)>> \o Filter(Tail(ids), unsub)

NextHandle == IF \E h \in Handles : handle[h] = "unused"
              THEN CHOOSE h \in Handles : handle[h] = "unused" /\ \A g \in Handles : g < h => handle[g] # "unused"
              ELSE 0

\* cleanup(): stop and forget the registered ticker and reconnect timer.
\* Timer.Stop() only prevents a timer that has not fired yet.
CleanupPc(p) ==
    IF reconnectTimer # 0 /\ p[<<"tm", reconnectTimer>>] = "armed"
    THEN [p EXCEPT ![<<"tm", reconnectTimer>>] = "stopped"]
    ELSE p

CleanupTickers ==
    IF pingTicker # 0 THEN [tickerStopped EXCEPT ![pingTicker] = TRUE] ELSE tickerStopped

\* ------------------------------------------------------------------ Connect
\* A caller goroutine enters Connect().
CallConnect(c) ==
    /\ pc[c] = "idle"
    /\ pc' = [pc EXCEPT ![c] = "Connect"]
    /\ ret' = [ret EXCEPT ![c] = "none"]
    /\ discReturned' = FALSE
    /\ failedRedials' = 0
    /\ UNCHANGED <<session, mu, opts, loc, lastFrame, fresh>>
    /\ UNCHANGED msgVars
    /\ UNCHANGED invoked

\* A guard that does not test ws.isConnecting.
ConnectGuardIgnoresConnecting(t) ==
    /\ pc[t] = "Connect"
    /\ LockFree
    /\ IF conn # 0
       THEN /\ mu' = t
            /\ pc' = [pc EXCEPT ![t] = "deadlock"]
            /\ UNCHANGED <<session, ret>>
       ELSE /\ isConnecting' = TRUE
            /\ shouldReconnect' = TRUE
            /\ pc' = [pc EXCEPT ![t] = "derive"]
            /\ UNCHANGED <<conn, handle, assetIDs, reconnectAttempts, pingTicker,
                           reconnectTimer, tickerStopped, mu, ret>>
    /\ UNCHANGED <<opts, loc, lastFrame, fresh, failedRedials, discReturned>>
    /\ UNCHANGED msgVars
    /\ UNCHANGED invoked

\* Connect, lines 127-135: the guard under ws.mu.Lock().  IsConnected() takes
\* ws.mu.RLock() while this goroutine still holds the write lock; sync.RWMutex
\* is not reentrant, so that call never returns and the lock is never released.
ConnectGuard(t) ==
    /\ pc[t] = "Connect"
    /\ LockFree
    /\ IF isConnecting
       THEN /\ pc' = [pc EXCEPT ![t] = Returned(t)]
            /\ ret' = Return(t, "nil")
            /\ UNCHANGED <<session, mu>>
       ELSE IF conn # 0
       THEN /\ mu' = t
            /\ pc' = [pc EXCEPT ![t] = "deadlock"]
            /\ UNCHANGED <<session, ret>>
       ELSE /\ isConnecting' = TRUE
            /\ shouldReconnect' = TRUE
            /\ pc' = [pc EXCEPT ![t] = "derive"]
            /\ UNCHANGED <<conn, handle, assetIDs, reconnectAttempts, pingTicker,
                           reconnectTimer, tickerStopped, mu, ret>>
    /\ UNCHANGED <<opts, loc, lastFrame, fresh, failedRedials, discReturned>>
    /\ UNCHANGED msgVars
    /\ UNCHANGED invoked

\* Connect, line 138: DeriveApiKey succeeded.
DeriveOk(t) ==
    /\ pc[t] = "derive"
    /\ pc' = [pc EXCEPT ![t] = "dial"]
    /\ UNCHANGED <<session, mu, opts, loc, ret, lastFrame, fresh, failedRedials, discReturned>>
    /\ UNCHANGED msgVars
    /\ UNCHANGED invoked

\* Connect, lines 139-144: DeriveApiKey failed.
DeriveFail(t) ==
    /\ pc[t] = "derive"
    /\ LockFree
    /\ isConnecting' = FALSE
    /\ pc' = [pc EXCEPT ![t] = Returned(t)]
    /\ ret' = Return(t, "errDerive")
    /\ failedRedials' = FailedRedial(t)
    /\ UNCHANGED <<conn, handle, assetIDs, reconnectAttempts, shouldReconnect, pingTicker,
                   reconnectTimer, tickerStopped, mu, opts, loc, lastFrame, fresh,
                   discReturned>>
    /\ UNCHANGED msgVars
    /\ UNCHANGED invoked

\* Connect, lines 157-161: url.Parse of the configured proxy URL failed; the
\* function returns without touching ws.isConnecting.
ProxyFail(t) ==
    /\ pc[t] = "dial"
    /\ opts.ProxyUrl = "malformed"
    /\ pc' = [pc EXCEPT ![t] = Returned(t)]
    /\ ret' = Return(t, "errProxy")
    /\ failedRedials' = FailedRedial(t)
    /\ UNCHANGED <<session, mu, opts, loc, lastFrame, fresh, discReturned>>
    /\ UNCHANGED msgVars
    /\ UNCHANGED invoked

\* A dial failure that forgets to clear ws.isConnecting (the statement of
\* line 167 removed).
DialFailKeepsConnecting(t) ==
    /\ pc[t] = "dial"
    /\ opts.ProxyUrl # "malformed"
    /\ LockFree
    /\ pc' = [pc EXCEPT ![t] = Returned(t)]
    /\ ret' = Return(t, "errDial")
    /\ failedRedials' = FailedRedial(t)
    /\ UNCHANGED <<conn, handle, assetIDs, reconnectAttempts, isConnecting, shouldReconnect,
                   pingTicker, reconnectTimer, tickerStopped, mu, opts, loc, lastFrame,
                   fresh, discReturned>>
    /\ UNCHANGED msgVars
    /\ UNCHANGED invoked

\* Connect, lines 164-170: dialer.Dial failed.
DialFail(t) ==
    /\ pc[t] = "dial"
    /\ opts.ProxyUrl # "malformed"
    /\ LockFree
    /\ isConnecting' = FALSE
    /\ pc' = [pc EXCEPT ![t] = Returned(t)]
    /\ ret' = Return(t, "errDial")
    /\ failedRedials' = FailedRedial(t)
    /\ UNCHANGED <<conn, handle, assetIDs, reconnectAttempts, shouldReconnect, pingTicker,
                   reconnectTimer, tickerStopped, mu, opts, loc, lastFrame, fresh,
                   discReturned>>
    /\ UNCHANGED msgVars
    /\ UNCHANGED invoked

\* A Connect that starts its two loops as soon as the handle is installed,
\* before the subscribe frame is sent.
DialOkStartsHandlers(t) ==
    /\ pc[t] = "dial"
    /\ opts.ProxyUrl # "malformed"
    /\ LockFree
    /\ NextHandle # 0
    /\ conn' = NextHandle
    /\ handle' = [handle EXCEPT ![NextHandle] = "open"]
    /\ isConnecting' = FALSE
    /\ reconnectAttempts' = 0
    /\ loc' = [loc EXCEPT ![t].h = NextHandle]
    /\ pc' = [pc EXCEPT ![t] = "C_sendSub",
                        ![<<"rl", NextHandle>>] = "top",
                        ![<<"pl", NextHandle>>] = "start"]
    /\ fresh' = TRUE
    /\ failedRedials' = 0
    /\ UNCHANGED <<assetIDs, shouldReconnect, pingTicker, reconnectTimer, tickerStopped,
                   mu, opts, ret, lastFrame, discReturned>>
    /\ UNCHANGED msgVars
    /\ UNCHANGED invoked

\* Connect, lines 164, 172-176: dialer.Dial succeeded; install the handle.
DialOk(t) ==
    /\ pc[t] = "dial"
    /\ opts.ProxyUrl # "malformed"
    /\ LockFree
    /\ NextHandle # 0
    /\ conn' = NextHandle
    /\ handle' = [handle EXCEPT ![NextHandle] = "open"]
    /\ isConnecting' = FALSE
    /\ reconnectAttempts' = 0
    /\ loc' = [loc EXCEPT ![t].h = NextHandle]
    /\ pc' = [pc EXCEPT ![t] = "C_sendSub"]
    /\ fresh' = TRUE
    /\ failedRedials' = 0
    /\ UNCHANGED <<assetIDs, shouldReconnect, pingTicker, reconnectTimer, tickerStopped,
                   mu, opts, ret, lastFrame, discReturned>>
    /\ UNCHANGED msgVars
    /\ UNCHANGED invoked

\* sendSubscription, lines 260-267: snapshot ws.conn and ws.options.AssetIDs
\* under RLock; a nil conn is the error "not connected".
SendSnapshot(t) ==
    /\ pc[t] \in {"C_sendSub", "S_sendSub"}
    /\ LockFree
    /\ IF conn = 0
       THEN /\ pc' = [pc EXCEPT ![t] = Returned(t)]
            /\ ret' = Return(t, "errNotConnected")
            /\ loc' = [loc EXCEPT ![t] = NoLoc]
            /\ failedRedials' = IF pc[t] = "C_sendSub" THEN FailedRedial(t) ELSE failedRedials
       ELSE /\ pc' = [pc EXCEPT ![t] = IF pc[t] = "C_sendSub" THEN "C_write" ELSE "S_write"]
            /\ loc' = [loc EXCEPT ![t].sc = conn, ![t].ids = assetIDs]
            /\ UNCHANGED <<ret, failedRedials>>
    /\ UNCHANGED <<session, mu, opts, lastFrame, fresh, discReturned>>
    /\ UNCHANGED msgVars
    /\ UNCHANGED invoked

\* sendSubscription, lines 269-275: conn.WriteJSON succeeded.  A write on a
\* handle whose peer is gone may still be accepted by the local socket.
WriteOk(t) ==
    /\ pc[t] \in {"C_write", "S_write"}
    /\ handle[loc[t].sc] \in {"open", "dropped"}
    /\ lastFrame' = loc[t].ids
    /\ IF pc[t] = "C_write"
       THEN /\ pc' = [pc EXCEPT ![t] = "C_start"]
            /\ loc' = [loc EXCEPT ![t].sc = 0, ![t].ids = << >>]
            /\ UNCHANGED ret
       ELSE /\ pc' = [pc EXCEPT ![t] = Returned(t)]
            /\ loc' = [loc EXCEPT ![t] = NoLoc]
            /\ ret' = Return(t, "nil")
    /\ UNCHANGED <<session, mu, opts, fresh, failedRedials, discReturned>>
    /\ UNCHANGED msgVars
    /\ UNCHANGED invoked

\* sendSubscription, line 275: conn.WriteJSON failed; Connect (line 182) and
\* Subscribe (line 219) both return the error to their caller.
WriteFail(t) ==
    /\ pc[t] \in {"C_write", "S_write"}
    /\ handle[loc[t].sc] \in {"closed", "dropped"}
    /\ failedRedials' = IF pc[t] = "C_write" THEN FailedRedial(t) ELSE failedRedials
    /\ pc' = [pc EXCEPT ![t] = Returned(t)]
    /\ loc' = [loc EXCEPT ![t] = NoLoc]
    /\ ret' = Return(t, "errSend")
    /\ UNCHANGED <<session, mu, opts, lastFrame, fresh, discReturned>>
    /\ UNCHANGED msgVars
    /\ UNCHANGED invoked

\* Connect, lines 186-187: start handleMessages and pingLoop as goroutines.
StartHandlers(t) ==
    /\ pc[t] = "C_start"
    /\ pc' = [pc EXCEPT ![t] = "C_onConnect",
                        ![<<"rl", loc[t].h>>] = "top",
                        ![<<"pl", loc[t].h>>] = "start"]
    /\ UNCHANGED <<session, mu, opts, loc, ret, lastFrame, fresh, failedRedials, discReturned>>
    /\ UNCHANGED msgVars
    /\ UNCHANGED invoked

\* Connect, lines 189-193: call OnConnect, return nil.
InvokeOnConnect(t) ==
    /\ pc[t] = "C_onConnect"
    /\ invoked' = [invoked EXCEPT ![loc[t].h].OnConnect = @ + 1]
    /\ pc' = [pc EXCEPT ![t] = Returned(t)]
    /\ loc' = [loc EXCEPT ![t] = NoLoc]
    /\ ret' = Return(t, "nil")
    /\ UNCHANGED <<session, mu, opts, lastFrame, fresh, failedRedials, discReturned>>
    /\ UNCHANGED msgVars

\* --------------------------------------------------------------- Disconnect
\* Disconnect, lines 198-200: the caller enters Disconnect() and clears
\* ws.shouldReconnect; with ws.mu held forever it blocks on the first Lock().
CallDisconnect(c) ==
    /\ pc[c] = "idle"
    /\ ret' = [ret EXCEPT ![c] = "none"]
    /\ IF LockFree
       THEN /\ shouldReconnect' = FALSE
            /\ pc' = [pc EXCEPT ![c] = "D_cleanup"]
       ELSE /\ pc' = [pc EXCEPT ![c] = "D_blocked"]
            /\ UNCHANGED shouldReconnect
    /\ UNCHANGED <<conn, handle, assetIDs, reconnectAttempts, isConnecting, pingTicker,
                   reconnectTimer, tickerStopped, mu, opts, loc, lastFrame, fresh,
                   failedRedials, discReturned>>
    /\ UNCHANGED msgVars
    /\ UNCHANGED invoked

\* Disconnect, line 202: cleanup().
DisconnectCleanup(c) ==
    /\ pc[c] = "D_cleanup"
    /\ LockFree
    /\ tickerStopped' = CleanupTickers
    /\ pingTicker' = 0
    /\ reconnectTimer' = 0
    /\ pc' = [CleanupPc(pc) EXCEPT ![c] = "D_close"]
    /\ UNCHANGED <<conn, handle, assetIDs, reconnectAttempts, isConnecting, shouldReconnect,
                   mu, opts, loc, ret, lastFrame, fresh, failedRedials, discReturned>>
    /\ UNCHANGED msgVars
    /\ UNCHANGED invoked

\* A Disconnect that closes ws.conn without testing it for nil: on a nil
\* handle the call panics.
DisconnectCloseNoNilTest(c) ==
    /\ pc[c] = "D_close"
    /\ LockFree
    /\ IF conn # 0
       THEN /\ handle' = [handle EXCEPT ![conn] = "closed"]
            /\ conn' = 0
            /\ UNCHANGED ret
       ELSE /\ ret' = [ret EXCEPT ![c] = "panic"]
            /\ UNCHANGED <<conn, handle>>
    /\ pc' = [pc EXCEPT ![c] = "idle"]
    /\ discReturned' = TRUE
    /\ UNCHANGED <<assetIDs, reconnectAttempts, isConnecting, shouldReconnect, pingTicker,
                   reconnectTimer, tickerStopped, mu, opts, loc, lastFrame, fresh,
                   failedRedials>>
    /\ UNCHANGED msgVars
    /\ UNCHANGED invoked

\* Disconnect, lines 204-209: close and forget the handle, then return.
DisconnectClose(c) ==
    /\ pc[c] = "D_close"
    /\ LockFree
    /\ IF conn # 0
       THEN /\ handle' = [handle EXCEPT ![conn] = "closed"]
            /\ conn' = 0
       ELSE UNCHANGED <<conn, handle>>
    /\ pc' = [pc EXCEPT ![c] = "idle"]
    /\ discReturned' = TRUE
    /\ UNCHANGED <<assetIDs, reconnectAttempts, isConnecting, shouldReconnect, pingTicker,
                   reconnectTimer, tickerStopped, mu, opts, loc, ret, lastFrame, fresh,
                   failedRedials>>
    /\ UNCHANGED msgVars
    /\ UNCHANGED invoked

\* ------------------------------------------------- Subscribe / Unsubscribe
\* A Subscribe that stores the ids passed in place of appending them.
CallSubscribeReplaces(c, ids) ==
    /\ pc[c] = "idle"
    /\ Len(assetIDs) + Len(ids) <= MaxLen
    /\ ret' = [ret EXCEPT ![c] = "none"]
    /\ IF LockFree
       THEN /\ assetIDs' = ids
            /\ pc' = [pc EXCEPT ![c] = "S_check"]
       ELSE /\ pc' = [pc EXCEPT ![c] = "S_blocked"]
            /\ UNCHANGED assetIDs
    /\ UNCHANGED <<conn, handle, reconnectAttempts, isConnecting, shouldReconnect, pingTicker,
                   reconnectTimer, tickerStopped, mu, opts, loc, lastFrame, fresh,
                   failedRedials, discReturned>>
    /\ UNCHANGED msgVars
    /\ UNCHANGED invoked

\* Subscribe, lines 214-216: the caller enters Subscribe(ids) and appends
\* under the lock.
CallSubscribe(c, ids) ==
    /\ pc[c] = "idle"
    /\ Len(assetIDs) + Len(ids) <= MaxLen
    /\ ret' = [ret EXCEPT ![c] = "none"]
    /\ IF LockFree
       THEN /\ assetIDs' = assetIDs \o ids
            /\ pc' = [pc EXCEPT ![c] = "S_check"]
       ELSE /\ pc' = [pc EXCEPT ![c] = "S_blocked"]
            /\ UNCHANGED assetIDs
    /\ UNCHANGED <<conn, handle, reconnectAttempts, isConnecting, shouldReconnect, pingTicker,
                   reconnectTimer, tickerStopped, mu, opts, loc, lastFrame, fresh,
                   failedRedials, discReturned>>
    /\ UNCHANGED msgVars
    /\ UNCHANGED invoked

\* Subscribe, lines 218-222: send only if IsConnected().
SubscribeCheck(c) ==
    /\ pc[c] = "S_check"
    /\ LockFree
    /\ IF IsConnected
       THEN /\ pc' = [pc EXCEPT ![c] = "S_sendSub"]
            /\ UNCHANGED ret
       ELSE /\ pc' = [pc EXCEPT ![c] = "idle"]
            /\ ret' = [ret EXCEPT ![c] = "nil"]
    /\ UNCHANGED <<session, mu, opts, loc, lastFrame, fresh, failedRedials, discReturned>>
    /\ UNCHANGED msgVars
    /\ UNCHANGED invoked

\* An Unsubscribe that, like Subscribe, resends the set when connected.
CallUnsubscribeSends(c, ids) ==
    /\ pc[c] = "idle"
    /\ ret' = [ret EXCEPT ![c] = "none"]
    /\ IF LockFree
       THEN /\ assetIDs' = Filter(assetIDs, ids)
            /\ lastFrame' = IF IsConnected THEN Filter(assetIDs, ids) ELSE lastFrame
            /\ UNCHANGED pc
       ELSE /\ pc' = [pc EXCEPT ![c] = "U_blocked"]
            /\ UNCHANGED <<assetIDs, lastFrame>>
    /\ UNCHANGED <<conn, handle, reconnectAttempts, isConnecting, shouldReconnect, pingTicker,
                   reconnectTimer, tickerStopped, mu, opts, loc, fresh,
                   failedRedials, discReturned>>
    /\ UNCHANGED msgVars
    /\ UNCHANGED invoked

\* Unsubscribe, lines 227-244.
CallUnsubscribe(c, ids) ==
    /\ pc[c] = "idle"
    /\ ret' = [ret EXCEPT ![c] = "none"]
    /\ IF LockFree
       THEN /\ assetIDs' = Filter(assetIDs, ids)
            /\ UNCHANGED pc
       ELSE /\ pc' = [pc EXCEPT ![c] = "U_blocked"]
            /\ UNCHANGED assetIDs
    /\ UNCHANGED <<conn, handle, reconnectAttempts, isConnecting, shouldReconnect, pingTicker,
                   reconnectTimer, tickerStopped, mu, opts, loc, lastFrame, fresh,
                   failedRedials, discReturned>>
    /\ UNCHANGED msgVars
    /\ UNCHANGED invoked

\* IsConnected, lines 248-252: a read under RLock; it changes nothing, and
\* blocks when ws.mu is held forever.
CallIsConnected(c) ==
    /\ pc[c] = "idle"
    /\ ret' = [ret EXCEPT ![c] = "none"]
    /\ pc' = [pc EXCEPT ![c] = IF LockFree THEN "idle" ELSE "I_blocked"]
    /\ UNCHANGED <<session, mu, opts, loc, lastFrame, fresh, failedRedials, discReturned>>
    /\ UNCHANGED msgVars
    /\ UNCHANGED invoked

\* ws.done is made by NewWebSocketClient as an open channel, and no statement
\* of the client closes it or sends on it.
doneClosed == FALSE

\* Wait, lines 255-257: receive from ws.done; the receive returns only on a
\* closed channel.
CallWait(c) ==
    /\ pc[c] = "idle"
    /\ ret' = [ret EXCEPT ![c] = "none"]
    /\ pc' = [pc EXCEPT ![c] = IF doneClosed THEN "idle" ELSE "Wait"]
    /\ UNCHANGED <<session, mu, opts, loc, lastFrame, fresh, failedRedials, discReturned>>
    /\ UNCHANGED msgVars
    /\ UNCHANGED invoked

\* ----------------------------------------------------------- handleMessages
\* handleMessages, lines 285-291: read ws.conn at the top of each iteration;
\* a nil conn ends the loop.
ReadLoopTop(h) ==
    /\ pc[<<"rl", h>>] = "top"
    /\ LockFree
    /\ IF conn = 0
       THEN /\ pc' = [pc EXCEPT ![<<"rl", h>>] = "hd_cleanup"]
            /\ UNCHANGED loc
       ELSE /\ pc' = [pc EXCEPT ![<<"rl", h>>] = "read"]
            /\ loc' = [loc EXCEPT ![<<"rl", h>>].sc = conn]
    /\ UNCHANGED <<session, mu, opts, ret, lastFrame, fresh, failedRedials, discReturned>>
    /\ UNCHANGED msgVars
    /\ UNCHANGED invoked

\* handleMessages, lines 285-293, 301-309: ReadMessage returned a frame; it is
\* processed (a PONG is skipped), and the next iteration re-reads ws.conn
\* under RLock and blocks in ReadMessage again.
ReadFrame(h) ==
    /\ pc[<<"rl", h>>] = "read"
    /\ handle[loc[<<"rl", h>>].sc] = "open"
    /\ LockFree
    /\ IF conn = 0
       THEN /\ pc' = [pc EXCEPT ![<<"rl", h>>] = "hd_cleanup"]
            /\ loc' = [loc EXCEPT ![<<"rl", h>>].sc = 0]
       ELSE /\ loc' = [loc EXCEPT ![<<"rl", h>>].sc = conn]
            /\ UNCHANGED pc
    /\ UNCHANGED <<session, mu, opts, ret, lastFrame, fresh, failedRedials, discReturned>>
    /\ UNCHANGED msgVars
    /\ UNCHANGED invoked

\* handleMessages, lines 293-299: ReadMessage returned an error (the peer
\* dropped the transport, or the handle was closed); the loop returns and the
\* deferred handleDisconnect runs.
ReadError(h) ==
    /\ pc[<<"rl", h>>] = "read"
    /\ handle[loc[<<"rl", h>>].sc] \in {"dropped", "closed"}
    /\ pc' = [pc EXCEPT ![<<"rl", h>>] = "hd_cleanup"]
    /\ loc' = [loc EXCEPT ![<<"rl", h>>].sc = 0]
    /\ UNCHANGED <<session, mu, opts, ret, lastFrame, fresh, failedRedials, discReturned>>
    /\ UNCHANGED msgVars
    /\ UNCHANGED invoked

\* ----------------------------------------------- processMessage / dispatch
\* processMessage, lines 315-324: json.Unmarshal into []json.RawMessage
\* succeeds for a JSON array, and also for the literal null, which yields a
\* nil slice; anything else is handed on whole as a single raw message.
RawMessages(frame) ==
    IF frame.body \in {"array", "null"} THEN frame.elems
    ELSE IF frame.body = "object" THEN <<frame.elems[1]>>
    ELSE <<[et |-> "garbage"]>>

\* types.ParseMarketChannelMessage: the discriminator names one of the four
\* event kinds, or decoding fails.
ParseMarketChannelMessage(raw) ==
    IF raw.et \in EventTypes THEN [ok |-> TRUE, eventType |-> raw.et]
    ELSE [ok |-> FALSE, eventType |-> "none"]

\* types.AsBookMessage, AsPriceChangeMessage, AsTickSizeChangeMessage,
\* AsLastTradePriceMessage: the down-cast to the variant of kind et succeeds
\* exactly for a message of that kind.
AsMessage(msg, et) == msg.ok /\ msg.eventType = et

\* A switch that sends every event kind to OnBook.
TypedCallbackAlwaysBook(et) == "OnBook"

\* parseAndDispatch, lines 336-353: the callback of each case of the switch.
TypedCallback(et) ==
    CASE et = "book" -> "OnBook"
      [] et = "price_change" -> "OnPriceChange"
      [] et = "tick_size_change" -> "OnTickSizeChange"
      [] et = "last_trade_price" -> "OnLastTradePrice"

\* One callback invocation: which callback, for which frame and element, with
\* which event ("error" for OnError).
Invocation(cb, f, i, et) == [cb |-> cb, f |-> f, i |-> i, et |-> et]

\* A dispatch that calls the general callback before the typed one.
DispatchGeneralFirst(raw, f, i) ==
    LET msg == ParseMarketChannelMessage(raw)
        typed == TypedCallback(msg.eventType)
    IN  IF ~msg.ok
        THEN IF "OnError" \in callbacks THEN <<Invocation("OnError", f, i, "error")>> ELSE << >>
        ELSE (IF "OnMessage" \in callbacks
              THEN <<Invocation("OnMessage", f, i, msg.eventType)>> ELSE << >>)
             \o (IF AsMessage(msg, msg.eventType) /\ typed \in callbacks
                 THEN <<Invocation(typed, f, i, msg.eventType)>> ELSE << >>)

\* parseAndDispatch, lines 327-359, with handleError, lines 389-395: the
\* callbacks invoked for one raw message, in order.
Dispatch(raw, f, i) ==
    LET msg == ParseMarketChannelMessage(raw)
        typed == TypedCallback(msg.eventType)
    IN  IF ~msg.ok
        THEN IF "OnError" \in callbacks THEN <<Invocation("OnError", f, i, "error")>> ELSE << >>
        ELSE (IF AsMessage(msg, msg.eventType) /\ typed \in callbacks
              THEN <<Invocation(typed, f, i, msg.eventType)>> ELSE << >>)
             \o (IF "OnMessage" \in callbacks
                 THEN <<Invocation("OnMessage", f, i, msg.eventType)>> ELSE << >>)

\* A read loop without the PONG test of lines 303-306.
ReadMessageNoPongTest(h, frame) ==
    /\ pc[<<"rl", h>>] = "read"
    /\ handle[loc[<<"rl", h>>].sc] = "open"
    /\ Len(received) < MaxFrames
    /\ received' = Append(received, frame)
    /\ IF frame.mt = "text" /\ RawMessages(frame) # << >>
       THEN /\ rx' = [rx EXCEPT ![h] = [f |-> Len(received) + 1, i |-> 1,
                                         msgs |-> RawMessages(frame)]]
            /\ pc' = [pc EXCEPT ![<<"rl", h>>] = "process"]
       ELSE /\ pc' = [pc EXCEPT ![<<"rl", h>>] = "top"]
            /\ UNCHANGED rx
    /\ UNCHANGED <<session, mu, opts, loc, ret, lastFrame, fresh, failedRedials,
                   discReturned, callbacks, calls>>
    /\ UNCHANGED invoked

\* handleMessages, lines 293, 301-309, and processMessage, lines 313-325:
\* ReadMessage returned a frame.  A frame that is not text, or is the text
\* PONG, is skipped; any other is split into its raw messages.
ReadMessage(h, frame) ==
    /\ pc[<<"rl", h>>] = "read"
    /\ handle[loc[<<"rl", h>>].sc] = "open"
    /\ Len(received) < MaxFrames
    /\ received' = Append(received, frame)
    /\ IF frame.mt = "text" /\ frame.body # "PONG" /\ RawMessages(frame) # << >>
       THEN /\ rx' = [rx EXCEPT ![h] = [f |-> Len(received) + 1, i |-> 1,
                                         msgs |-> RawMessages(frame)]]
            /\ pc' = [pc EXCEPT ![<<"rl", h>>] = "process"]
       ELSE /\ pc' = [pc EXCEPT ![<<"rl", h>>] = "top"]
            /\ UNCHANGED rx
    /\ UNCHANGED <<session, mu, opts, loc, ret, lastFrame, fresh, failedRedials,
                   discReturned, callbacks, calls>>
    /\ UNCHANGED invoked

\* A loop over the array that stops after its first element.
ParseAndDispatchFirstOnly(h) ==
    /\ pc[<<"rl", h>>] = "process"
    /\ calls' = calls \o Dispatch(Head(rx[h].msgs), rx[h].f, rx[h].i)
    /\ rx' = [rx EXCEPT ![h] = NoRx]
    /\ pc' = [pc EXCEPT ![<<"rl", h>>] = "top"]
    /\ UNCHANGED <<session, mu, opts, loc, ret, lastFrame, fresh, failedRedials,
                   discReturned, callbacks, received>>
    /\ UNCHANGED invoked

\* A loop over the array that gives the frame up at the first element that
\* fails to decode.
ParseAndDispatchStopsOnError(h) ==
    /\ pc[<<"rl", h>>] = "process"
    /\ calls' = calls \o Dispatch(Head(rx[h].msgs), rx[h].f, rx[h].i)
    /\ IF Tail(rx[h].msgs) = << >> \/ ~ParseMarketChannelMessage(Head(rx[h].msgs)).ok
       THEN /\ rx' = [rx EXCEPT ![h] = NoRx]
            /\ pc' = [pc EXCEPT ![<<"rl", h>>] = "top"]
       ELSE /\ rx' = [rx EXCEPT ![h].i = @ + 1, ![h].msgs = Tail(@)]
            /\ UNCHANGED pc
    /\ UNCHANGED <<session, mu, opts, loc, ret, lastFrame, fresh, failedRedials,
                   discReturned, callbacks, received>>
    /\ UNCHANGED invoked

\* processMessage, lines 318-320 and 323: parseAndDispatch of the next raw
\* message of the frame; after the last one the loop goes for the next frame.
ParseAndDispatch(h) ==
    /\ pc[<<"rl", h>>] = "process"
    /\ calls' = calls \o Dispatch(Head(rx[h].msgs), rx[h].f, rx[h].i)
    /\ IF Tail(rx[h].msgs) = << >>
       THEN /\ rx' = [rx EXCEPT ![h] = NoRx]
            /\ pc' = [pc EXCEPT ![<<"rl", h>>] = "top"]
       ELSE /\ rx' = [rx EXCEPT ![h].i = @ + 1, ![h].msgs = Tail(@)]
            /\ UNCHANGED pc
    /\ UNCHANGED <<session, mu, opts, loc, ret, lastFrame, fresh, failedRedials,
                   discReturned, callbacks, received>>
    /\ UNCHANGED invoked

\* handleDisconnect, lines 398-402: cleanup(), then OnDisconnect.
HandleDisconnectCleanup(h) ==
    /\ pc[<<"rl", h>>] = "hd_cleanup"
    /\ LockFree
    /\ tickerStopped' = CleanupTickers
    /\ pingTicker' = 0
    /\ reconnectTimer' = 0
    /\ pc' = [CleanupPc(pc) EXCEPT ![<<"rl", h>>] = "hd_check"]
    /\ invoked' = [invoked EXCEPT ![h].OnDisconnect = @ + 1]
    /\ UNCHANGED <<conn, handle, assetIDs, reconnectAttempts, isConnecting, shouldReconnect,
                   mu, opts, loc, ret, lastFrame, fresh, failedRedials, discReturned>>
    /\ UNCHANGED msgVars

\* A handleDisconnect that does not consult options.AutoReconnect.
HandleDisconnectCheckIgnoresOption(h) ==
    /\ pc[<<"rl", h>>] = "hd_check"
    /\ LockFree
    /\ pc' = [pc EXCEPT ![<<"rl", h>>] = IF shouldReconnect THEN "sr_guard" ELSE "done"]
    /\ UNCHANGED <<session, mu, opts, loc, ret, lastFrame, fresh, failedRedials, discReturned>>
    /\ UNCHANGED msgVars
    /\ UNCHANGED invoked

\* handleDisconnect, lines 404-411.
HandleDisconnectCheck(h) ==
    /\ pc[<<"rl", h>>] = "hd_check"
    /\ LockFree
    /\ pc' = [pc EXCEPT ![<<"rl", h>>] =
                 IF shouldReconnect /\ opts.AutoReconnect THEN "sr_guard" ELSE "done"]
    /\ UNCHANGED <<session, mu, opts, loc, ret, lastFrame, fresh, failedRedials, discReturned>>
    /\ UNCHANGED msgVars
    /\ UNCHANGED invoked

\* A scheduleReconnect that refuses only once the counter is past the cap.
ScheduleGuardPastCap(h) ==
    /\ pc[<<"rl", h>>] = "sr_guard"
    /\ LockFree
    /\ IF opts.MaxReconnectAttempts > 0 /\ reconnectAttempts > opts.MaxReconnectAttempts
       THEN /\ pc' = [pc EXCEPT ![<<"rl", h>>] = "done"]
            /\ UNCHANGED <<reconnectAttempts, loc>>
       ELSE /\ reconnectAttempts' = reconnectAttempts + 1
            /\ loc' = [loc EXCEPT ![<<"rl", h>>].attempt = reconnectAttempts + 1]
            /\ pc' = [pc EXCEPT ![<<"rl", h>>] = "sr_callback"]
    /\ UNCHANGED <<conn, handle, assetIDs, isConnecting, shouldReconnect, pingTicker,
                   reconnectTimer, tickerStopped, mu, opts, ret, lastFrame, fresh,
                   failedRedials, discReturned>>
    /\ UNCHANGED msgVars
    /\ UNCHANGED invoked

\* scheduleReconnect, lines 415-425: refuse at the cap, else count the attempt.
ScheduleGuard(h) ==
    /\ pc[<<"rl", h>>] = "sr_guard"
    /\ LockFree
    /\ IF opts.MaxReconnectAttempts > 0 /\ reconnectAttempts >= opts.MaxReconnectAttempts
       THEN /\ pc' = [pc EXCEPT ![<<"rl", h>>] = "done"]
            /\ UNCHANGED <<reconnectAttempts, loc>>
       ELSE /\ reconnectAttempts' = reconnectAttempts + 1
            /\ loc' = [loc EXCEPT ![<<"rl", h>>].attempt = reconnectAttempts + 1]
            /\ pc' = [pc EXCEPT ![<<"rl", h>>] = "sr_callback"]
    /\ UNCHANGED <<conn, handle, assetIDs, isConnecting, shouldReconnect, pingTicker,
                   reconnectTimer, tickerStopped, mu, opts, ret, lastFrame, fresh,
                   failedRedials, discReturned>>
    /\ UNCHANGED msgVars
    /\ UNCHANGED invoked

\* A scheduleReconnect that arms the timer without invoking OnReconnect.
ScheduleCallbackNotInvoked(h) ==
    /\ pc[<<"rl", h>>] = "sr_callback"
    /\ fresh' = FALSE
    /\ pc' = [pc EXCEPT ![<<"rl", h>>] = "sr_arm"]
    /\ UNCHANGED <<session, mu, opts, loc, ret, lastFrame, failedRedials, discReturned>>
    /\ UNCHANGED msgVars
    /\ UNCHANGED invoked

\* scheduleReconnect, lines 429-431: OnReconnect(attempt), outside the lock.
ScheduleCallback(h) ==
    /\ pc[<<"rl", h>>] = "sr_callback"
    /\ fresh' = FALSE
    /\ invoked' = [invoked EXCEPT ![h].OnReconnect = Append(@, loc[<<"rl", h>>].attempt)]
    /\ pc' = [pc EXCEPT ![<<"rl", h>>] = "sr_arm"]
    /\ UNCHANGED <<session, mu, opts, loc, ret, lastFrame, failedRedials, discReturned>>
    /\ UNCHANGED msgVars

\* scheduleReconnect, lines 433-440: arm the timer and record it.
ScheduleArm(h) ==
    /\ pc[<<"rl", h>>] = "sr_arm"
    /\ LockFree
    /\ reconnectTimer' = h
    /\ pc' = [pc EXCEPT ![<<"rl", h>>] = "done", ![<<"tm", h>>] = "armed"]
    /\ loc' = [loc EXCEPT ![<<"rl", h>>] = NoLoc]
    /\ UNCHANGED <<conn, handle, assetIDs, reconnectAttempts, isConnecting, shouldReconnect,
                   pingTicker, tickerStopped, mu, opts, ret, lastFrame, fresh, failedRedials,
                   discReturned>>
    /\ UNCHANGED msgVars
    /\ UNCHANGED invoked

\* scheduleReconnect, lines 434-439: the delay elapsed; the timer goroutine
\* calls Connect().
TimerFire(h) ==
    /\ pc[<<"tm", h>>] = "armed"
    /\ pc' = [pc EXCEPT ![<<"tm", h>>] = "Connect"]
    /\ UNCHANGED <<session, mu, opts, loc, ret, lastFrame, fresh, failedRedials, discReturned>>
    /\ UNCHANGED msgVars
    /\ UNCHANGED invoked

\* ----------------------------------------------------------------- pingLoop
\* pingLoop, lines 362-365: create the ticker and record it in ws.pingTicker.
PingStart(h) ==
    /\ pc[<<"pl", h>>] = "start"
    /\ LockFree
    /\ pingTicker' = h
    /\ pc' = [pc EXCEPT ![<<"pl", h>>] = "wait"]
    /\ UNCHANGED <<conn, handle, assetIDs, reconnectAttempts, isConnecting, shouldReconnect,
                   reconnectTimer, tickerStopped, mu, opts, loc, ret, lastFrame, fresh,
                   failedRedials, discReturned>>
    /\ UNCHANGED msgVars
    /\ UNCHANGED invoked

\* pingLoop, lines 373-378: a tick of a ticker that was not stopped; ws.done is
\* never closed, so a tick is the only way the select wakes up.  With a nil
\* conn the iteration does nothing.
PingTick(h) ==
    /\ pc[<<"pl", h>>] = "wait"
    /\ ~tickerStopped[h]
    /\ LockFree
    /\ conn # 0
    /\ pc' = [pc EXCEPT ![<<"pl", h>>] = "ping"]
    /\ loc' = [loc EXCEPT ![<<"pl", h>>].sc = conn]
    /\ UNCHANGED <<session, mu, opts, ret, lastFrame, fresh, failedRedials, discReturned>>
    /\ UNCHANGED msgVars
    /\ UNCHANGED invoked

\* pingLoop, lines 379-383: the PING was written.
PingOk(h) ==
    /\ pc[<<"pl", h>>] = "ping"
    /\ handle[loc[<<"pl", h>>].sc] \in {"open", "dropped"}
    /\ pc' = [pc EXCEPT ![<<"pl", h>>] = "wait"]
    /\ loc' = [loc EXCEPT ![<<"pl", h>>] = NoLoc]
    /\ UNCHANGED <<session, mu, opts, ret, lastFrame, fresh, failedRedials, discReturned>>
    /\ UNCHANGED msgVars
    /\ UNCHANGED invoked

\* A pingLoop that reports the failed write and goes on with its loop.
PingFailKeepsLooping(h) ==
    /\ pc[<<"pl", h>>] = "ping"
    /\ handle[loc[<<"pl", h>>].sc] \in {"closed", "dropped"}
    /\ invoked' = IF "OnError" \in callbacks /\ invoked[h].OnError < 2
                  THEN [invoked EXCEPT ![h].OnError = @ + 1] ELSE invoked
    /\ pc' = [pc EXCEPT ![<<"pl", h>>] = "wait"]
    /\ loc' = [loc EXCEPT ![<<"pl", h>>] = NoLoc]
    /\ UNCHANGED <<session, mu, opts, ret, lastFrame, fresh, failedRedials, discReturned>>
    /\ UNCHANGED msgVars

\* pingLoop, lines 379-382 and 367, with handleError, lines 389-395: the
\* write failed; the error goes to OnError when one is registered, the loop
\* returns and the deferred ticker.Stop() stops its own ticker.
PingFail(h) ==
    /\ pc[<<"pl", h>>] = "ping"
    /\ handle[loc[<<"pl", h>>].sc] \in {"closed", "dropped"}
    /\ invoked' = IF "OnError" \in callbacks
                  THEN [invoked EXCEPT ![h].OnError = @ + 1] ELSE invoked
    /\ tickerStopped' = [tickerStopped EXCEPT ![h] = TRUE]
    /\ pc' = [pc EXCEPT ![<<"pl", h>>] = "done"]
    /\ loc' = [loc EXCEPT ![<<"pl", h>>] = NoLoc]
    /\ UNCHANGED <<conn, handle, assetIDs, reconnectAttempts, isConnecting, shouldReconnect,
                   pingTicker, reconnectTimer, mu, opts, ret, lastFrame, fresh, failedRedials,
                   discReturned>>
    /\ UNCHANGED msgVars

\* -------------------------------------------------------------- environment
\* The peer or the network drops the transport of an open handle.
TransportDrop(h) ==
    /\ handle[h] = "open"
    /\ handle' = [handle EXCEPT ![h] = "dropped"]
    /\ UNCHANGED <<conn, assetIDs, reconnectAttempts, isConnecting, shouldReconnect,
                   pingTicker, reconnectTimer, tickerStopped, mu, opts, pc, loc, ret,
                   lastFrame, fresh, failedRedials, discReturned>>
    /\ UNCHANGED msgVars
    /\ UNCHANGED invoked

\* ------------------------------------------------------------ specification
\* The steps of one Connect() call, made by a caller or by a fired timer.
ConnectStep(t) ==
    \/ ConnectGuard(t)
    \/ DeriveOk(t)
    \/ DeriveFail(t)
    \/ ProxyFail(t)
    \/ DialFail(t)
    \/ DialOk(t)
    \/ SendSnapshot(t)
    \/ WriteOk(t)
    \/ WriteFail(t)
    \/ StartHandlers(t)
    \/ InvokeOnConnect(t)

\* The steps of handleMessages up to the decision of handleDisconnect.
ReadLoopStep(h) ==
    \/ ReadLoopTop(h)
    \/ ReadFrame(h)
    \/ ReadError(h)
    \/ HandleDisconnectCleanup(h)
    \/ HandleDisconnectCheck(h)

\* The steps of scheduleReconnect.
ScheduleStep(h) ==
    \/ ScheduleGuard(h)
    \/ ScheduleCallback(h)
    \/ ScheduleArm(h)
    \/ TimerFire(h)

PingLoopStep(h) ==
    \/ PingStart(h)
    \/ PingTick(h)
    \/ PingOk(h)
    \/ PingFail(h)

DisconnectStep(c) ==
    \/ CallDisconnect(c)
    \/ DisconnectCleanup(c)
    \/ DisconnectClose(c)

SubscribeStep(c) ==
    \/ \E ids \in SubscribeArgs : CallSubscribe(c, ids)
    \/ SubscribeCheck(c)
    \/ \E ids \in UnsubscribeArgs : CallUnsubscribe(c, ids)

\* The connection and reconnection engine: a caller that connects and
\* disconnects at will, the goroutines and timers the client starts, and a
\* transport that may drop at any time.
Next ==
    \/ \E c \in Callers : CallConnect(c)
    \/ \E c \in Callers : CallIsConnected(c)
    \/ \E c \in Callers : DisconnectStep(c)
    \/ \E t \in Callers \cup Timers : ConnectStep(t)
    \/ \E h \in Handles : ReadLoopStep(h)
    \/ \E h \in Handles : ScheduleStep(h)
    \/ \E h \in Handles : PingLoopStep(h)
    \/ \E h \in Handles : TransportDrop(h)

Spec == Init /\ [][Next]_vars

\* The subscription registry: the same client with auto-reconnect off, and a
\* caller that also subscribes, unsubscribes and waits for the session's end.
SubInit == Init /\ ~opts.AutoReconnect

SubNext ==
    \/ \E c \in Callers : CallConnect(c)
    \/ \E c \in Callers : CallIsConnected(c)
    \/ \E c \in Callers : DisconnectStep(c)
    \/ \E c \in Callers : SubscribeStep(c)
    \/ \E c \in Callers : CallWait(c)
    \/ \E c \in Callers : ConnectStep(c)
    \/ \E h \in Handles : ReadLoopStep(h)
    \/ \E h \in Handles : PingLoopStep(h)
    \/ \E h \in Handles : TransportDrop(h)

SubSpec == SubInit /\ [][SubNext]_vars

\* Frame processing: the same client with auto-reconnect off, a caller that
\* connects, a server that sends frames, and a transport that may drop.
MsgInit == ClientInit /\ MsgStart /\ ~opts.AutoReconnect /\ callbacks \in CallbackSets

MsgNext ==
    \/ \E c \in Callers : CallConnect(c)
    \/ \E c \in Callers : ConnectStep(c)
    \/ \E h \in Handles : ReadLoopTop(h)
    \/ \E h \in Handles : \E frame \in Frames : ReadMessage(h, frame)
    \/ \E h \in Handles : ParseAndDispatch(h)
    \/ \E h \in Handles : ReadError(h)
    \/ \E h \in Handles : HandleDisconnectCleanup(h)
    \/ \E h \in Handles : HandleDisconnectCheck(h)
    \/ \E h \in Handles : TransportDrop(h)

MsgSpec == MsgInit /\ [][MsgNext]_vars

\* Batched delivery: the same client and transport, with a server that sends
\* array frames in which decodable and undecodable sub-messages are mixed.
BatchNext ==
    \/ \E c \in Callers : CallConnect(c)
    \/ \E c \in Callers : ConnectStep(c)
    \/ \E h \in Handles : ReadLoopTop(h)
    \/ \E h \in Handles : \E frame \in BatchFrames : ReadMessage(h, frame)
    \/ \E h \in Handles : ParseAndDispatch(h)
    \/ \E h \in Handles : ReadError(h)
    \/ \E h \in Handles : HandleDisconnectCleanup(h)
    \/ \E h \in Handles : HandleDisconnectCheck(h)
    \/ \E h \in Handles : TransportDrop(h)

BatchSpec == MsgInit /\ [][BatchNext]_vars

\* Frame processing across sessions: the same client with a caller that also
\* disconnects, so that a connection can follow another one.
SessionNext ==
    \/ \E c \in Callers : CallConnect(c)
    \/ \E c \in Callers : ConnectStep(c)
    \/ \E c \in Callers : DisconnectStep(c)
    \/ \E h \in Handles : ReadLoopTop(h)
    \/ \E h \in Handles : \E frame \in EventFrames : ReadMessage(h, frame)
    \/ \E h \in Handles : ParseAndDispatch(h)
    \/ \E h \in Handles : ReadError(h)
    \/ \E h \in Handles : HandleDisconnectCleanup(h)
    \/ \E h \in Handles : HandleDisconnectCheck(h)
    \/ \E h \in Handles : TransportDrop(h)

SessionSpec == MsgInit /\ [][SessionNext]_vars

\* A Connect() call is executing in task t.
InConnect(t) == pc[t] \in {"Connect", "deadlock", "derive", "dial", "C_sendSub", "C_write", "C_start",
                            "C_onConnect"}

\* Concurrent subscription: the client with auto-reconnect off, a caller that
\* connects and then subscribes, a second goroutine that subscribes at the
\* same time, and a transport that may drop.  Subscribe() is called on the
\* connected client only, after Connect() has returned.
PairInit ==
    ClientStart(PairAssetIDs) /\ MsgStart /\ callbacks = AllCallbacks /\ ~opts.AutoReconnect

\* Subscribe() called on a connected client, after Connect() has returned.
CallSubscribeConnected(c, ids) ==
    /\ IsConnected
    /\ \A t \in Callers : ~InConnect(t)
    /\ CallSubscribe(c, ids)

PairNext ==
    \/ \E c \in Callers : CallConnect(c)
    \/ \E c \in Callers : ConnectStep(c)
    \/ \E c \in AppTasks : \E ids \in PairArgs : CallSubscribeConnected(c, ids)
    \/ \E c \in AppTasks : SubscribeCheck(c)
    \/ \E c \in SecondCallers : SendSnapshot(c) \/ WriteOk(c) \/ WriteFail(c)
    \/ \E h \in Handles : TransportDrop(h)

PairSpec == PairInit /\ [][PairNext]_vars

\* The subscription registry of a client that is not connected: a caller that
\* unsubscribes any list of ids and subscribes again.
RegistryInit ==
    ClientStart(FullLists) /\ MsgStart /\ callbacks = AllCallbacks /\ ~opts.AutoReconnect

RegistryNext ==
    \/ \E c \in Callers : \E ids \in UnsubscribeLists : CallUnsubscribe(c, ids)
    \/ \E c \in Callers : \E ids \in SubscribeArgs : CallSubscribe(c, ids)
    \/ \E c \in Callers : SubscribeCheck(c)

RegistrySpec == RegistryInit /\ [][RegistryNext]_vars

\* ------------------------------------------------------------------ claims
\* The steps the client takes by itself: everything but the caller entering
\* an operation and the transport dropping.
EngineStep ==
    \/ \E t \in Callers \cup Timers : ConnectStep(t)
    \/ \E c \in Callers : DisconnectCleanup(c) \/ DisconnectClose(c) \/ SubscribeCheck(c)
    \/ \E h \in Handles : ReadLoopTop(h) \/ ReadError(h) \/ HandleDisconnectCleanup(h)
                             \/ HandleDisconnectCheck(h)
    \/ \E h \in Handles : ScheduleStep(h)
    \/ \E h \in Handles : PingStart(h) \/ PingTick(h) \/ PingOk(h) \/ PingFail(h)

TimerArmed == \E h \in Handles : pc[<<"tm", h>>] = "armed"

\* The pc values at which a caller waits for ws.mu.
LockWaiting == {"D_blocked", "D_cleanup", "D_close", "I_blocked", "S_blocked", "S_check",
                "S_sendSub", "U_blocked"}

RECURSIVE NoDuplicates(_)
NoDuplicates(s) == IF s = << >> THEN TRUE
                   ELSE ~Contains(Tail(s), Head(s)) /\ NoDuplicates(Tail(s))

\* C2: Connect() called while the client is already connected returns nil and
\* changes nothing: no dial, no frame, no new goroutine, session state unchanged.
C2_ConnectWhileConnectedIsNoOp ==
    [][\A c \in Callers :
          (pc[c] = "Connect" /\ IsConnected /\ pc'[c] # pc[c])
              => /\ pc'[c] = "idle"
                 /\ ret'[c] = "nil"
                 /\ UNCHANGED <<session, mu, lastFrame>>
                 /\ \A t \in Tasks \ {c} : pc'[t] = pc[t]]_vars

\* C3: while connected, once a Subscribe/Unsubscribe call has returned, the
\* last subscribe frame sent carries exactly the current Subscription Set,
\* without duplicates.
C3_LastFrameIsCurrentSet ==
    (IsConnected /\ handle[conn] = "open" /\ lastFrame # NoFrame
        /\ \A c \in Callers : pc[c] = "idle")
        => (lastFrame = assetIDs /\ NoDuplicates(lastFrame))

\* C4: once Disconnect() has returned, IsConnected() is false and no reconnect
\* timer is armed, until the caller calls Connect() again.
C4_DisconnectLeavesNoTimer ==
    discReturned => (~IsConnected /\ ~TimerArmed)

\* C5: once Disconnect() has returned, the session is not connected and no
\* Connect() is running or marked in flight, until the caller calls Connect()
\* again.
C5_DisconnectLeadsToIdle ==
    (discReturned /\ opts.ProxyUrl = "")
        => (~IsConnected /\ ~isConnecting /\ \A t \in Timers : ~InConnect(t))

\* C9: a caller that waits for the session lock can always get it: no
\* Disconnect(), IsConnected(), Subscribe() or Unsubscribe() call is blocked
\* forever.
C9_NoCallBlockedForever ==
    \A c \in Callers : pc[c] \in LockWaiting => LockFree

\* C1: after a transport drop with auto-reconnect on and at least one attempt
\* allowed, while the caller only waits (its Connect() returned nil and it has
\* not called Disconnect()), the engine goes on to re-dial: it never comes to
\* rest before the reconnect timer's Connect() has run.
C1_RedialsAfterDrop ==
    (/\ opts.AutoReconnect /\ opts.MaxReconnectAttempts >= 1
     /\ \A c \in Callers : pc[c] = "idle" /\ ret[c] = "nil"
     /\ conn = 1 /\ handle[1] = "dropped" /\ NextHandle = 2)
        => (ENABLED EngineStep \/ \E h \in Handles : pc[<<"tm", h>>] = "done")

\* C6: with MaxReconnectAttempts = N > 0, once N redials in a row have failed
\* no reconnect is attempted any more: no OnReconnect is about to fire, no
\* timer is armed or running Connect(), until the caller calls Connect().
C6_StopsAfterMaxFailedRedials ==
    (opts.MaxReconnectAttempts > 0 /\ failedRedials >= opts.MaxReconnectAttempts)
        => /\ ~TimerArmed
           /\ \A h \in Handles : pc[<<"rl", h>>] \notin {"sr_callback", "sr_arm"}
           /\ \A t \in Timers : ~InConnect(t)

\* C7: a successful dial leaves reconnectAttempts = 0, and the first
\* OnReconnect after a successful dial reports attempt 1.
C7_CounterResetsOnConnect ==
    [][/\ \A t \in Callers \cup Timers :
             (pc[t] = "dial" /\ pc'[t] = "C_sendSub") => reconnectAttempts' = 0
       /\ \A h \in Handles :
             (pc[<<"rl", h>>] = "sr_callback" /\ pc'[<<"rl", h>>] = "sr_arm" /\ fresh)
                 => loc[<<"rl", h>>].attempt = 1]_vars

\* Every goroutine and timer of the session has finished.
AllTasksFinished ==
    \A h \in Handles : /\ pc[<<"rl", h>>] \in {"unused", "done"}
                       /\ pc[<<"pl", h>>] \in {"unused", "done"}
                       /\ pc[<<"tm", h>>] \in {"unused", "stopped", "done"}

\* C8: after Disconnect() has returned, when the session has come to rest
\* every task it started has terminated (no goroutine is left blocked).
C8_NoTaskLeftAfterDisconnect ==
    (discReturned /\ ~ENABLED EngineStep) => AllTasksFinished

\* How often OnConnect has been invoked for each handle.
OnConnectCount == [h \in Handles |-> invoked[h].OnConnect]

\* C10: a Connect() that fails in credential derivation or in the dial returns
\* an error and leaves the session disconnected: not connected, not marked
\* connecting, no loop or timer started, attempt counter unchanged, OnConnect
\* not invoked.
C10_FailedConnectLeavesDisconnected ==
    [][\A t \in Callers \cup Timers :
          (/\ pc'[t] = Returned(t)
           /\ \/ pc[t] = "derive"
              \/ pc[t] = "dial" /\ opts.ProxyUrl # "malformed")
              => /\ ~IsConnected'
                 /\ ~isConnecting'
                 /\ t \in Callers => ret'[t] \in {"errDerive", "errDial"}
                 /\ \A u \in Tasks \ {t} : pc'[u] = pc[u]
                 /\ reconnectAttempts' = reconnectAttempts
                 /\ reconnectTimer' = reconnectTimer
                 /\ OnConnectCount' = OnConnectCount]_vars

W10_ConnectFailed ==
    \E c \in Callers : pc[c] = "idle" /\ ret[c] \in {"errDerive", "errDial"}
                       /\ ~IsConnected /\ ~isConnecting

\* The errors Connect() returns to its caller.
ConnectErrors == {"errDerive", "errProxy", "errDial", "errNotConnected", "errSend"}

\* C11: after a Connect() of the caller has returned an error (a malformed
\* proxy URL included), the session is retryable: with no other Connect() in
\* progress, the guard of the caller's next Connect() lets it through (nothing
\* is marked in flight, no handle is installed, the lock is free).
C11_ConnectErrorLeavesRetryable ==
    \A c \in Callers :
        (/\ pc[c] = "idle"
         /\ ret[c] \in ConnectErrors
         /\ \A t \in Timers : ~InConnect(t))
            => (~isConnecting /\ ~IsConnected /\ LockFree)

\* C12: a Subscribe() whose subscribe frame was handed to the transport
\* returns success to its caller whether the write succeeded or failed (a
\* failure goes to OnError, not to the caller), and the Subscription Set keeps
\* the added ids.
C12_SubscribeSendFailureNotReturned ==
    [][\A c \in Callers :
          (pc[c] = "S_write" /\ pc'[c] = "idle")
              => (ret'[c] = "nil" /\ assetIDs' = assetIDs)]_vars

\* The pc values of a caller inside Subscribe().
InSubscribe == {"S_check", "S_sendSub", "S_write"}

\* C13: Subscribe(ids) appends ids to the Subscription Set; called while
\* connected it makes one write, and the frame written is the complete set
\* (the earlier ids followed by the new ones), never the ids passed alone;
\* called while not connected it writes nothing and returns success.
C13_SubscribeSendsFullSet ==
    [][\A c \in Callers :
          /\ (pc[c] = "idle" /\ pc'[c] = "S_check")
                => /\ \E ids \in SubscribeArgs : assetIDs' = assetIDs \o ids
                   /\ lastFrame' = lastFrame
          /\ (pc[c] = "S_check" /\ pc'[c] # pc[c])
                => /\ lastFrame' = lastFrame /\ assetIDs' = assetIDs
                   /\ IF IsConnected THEN pc'[c] = "S_sendSub"
                                     ELSE pc'[c] = "idle" /\ ret'[c] = "nil"
          /\ (pc[c] = "S_sendSub" /\ pc'[c] = "S_write")
                => /\ lastFrame' = lastFrame /\ assetIDs' = assetIDs
                   /\ loc'[c].ids = assetIDs
          /\ (pc[c] = "S_write" /\ pc'[c] = "idle" /\ ret'[c] = "nil")
                => /\ lastFrame' = assetIDs
                   /\ lastFrame' \notin SubscribeArgs
                   /\ assetIDs' = assetIDs]_vars

W13_SubscribeSentFullSet ==
    \E c \in Callers : /\ pc[c] = "idle" /\ ret[c] = "nil" /\ IsConnected
                       /\ lastFrame = <<"A", "B", "A">> /\ assetIDs = lastFrame

\* C14: Unsubscribe(ids) removes the ids from the local Subscription Set and
\* does nothing else: no frame is written, and the handle, the transport, the
\* attempt counter, the flags, the ticker and the timer are unchanged, connected
\* or not.
C14_UnsubscribeOnlyMutatesSet ==
    [][\A c \in Callers :
          (pc[c] = "idle" /\ pc'[c] = "idle" /\ assetIDs' # assetIDs)
              => /\ \E ids \in UnsubscribeArgs : assetIDs' = Filter(assetIDs, ids)
                 /\ UNCHANGED <<conn, handle, reconnectAttempts, isConnecting,
                                shouldReconnect, pingTicker, reconnectTimer,
                                tickerStopped, mu, lastFrame>>
                 /\ \A t \in Tasks : pc'[t] = pc[t]]_vars

W14_UnsubscribedWhileConnected ==
    \E c \in Callers : /\ pc[c] = "idle" /\ IsConnected /\ handle[conn] = "open"
                       /\ assetIDs = <<"B">> /\ lastFrame = <<"A", "B">>

\* The callbacks invoked for frame number k, in order of invocation.
CallsOf(k) == SelectSeq(calls, LAMBDA e : e.f = k)

\* C15: a text frame whose payload is PONG triggers no callback at all (not
\* the general one, no typed one, not OnError): it is discarded, and the read
\* loop goes on to the next frame.
C15_PongIsDiscarded ==
    /\ [](\A k \in 1..Len(received) : received[k] = PongFrame => CallsOf(k) = << >>)
    /\ [][\A h \in Handles :
             (/\ pc[<<"rl", h>>] = "read"
              /\ Len(received') = Len(received) + 1
              /\ received'[Len(received')] = PongFrame)
                 => /\ pc'[<<"rl", h>>] = "top"
                    /\ calls' = calls
                    /\ UNCHANGED <<session, rx>>]_vars

W15_FrameDispatchedAfterPong ==
    /\ Len(received) = 2 /\ received[1] = PongFrame
    /\ callbacks = AllCallbacks
    /\ Len(CallsOf(2)) = 2

\* Frame number k has been processed to its end.
Processed(k) == k \in 1..Len(received) /\ \A h \in Handles : rx[h].f # k

\* Frame fr is a JSON array whose elements are all valid events.
ValidArray(fr) ==
    /\ fr.mt = "text" /\ fr.body = "array"
    /\ \A i \in 1..Len(fr.elems) : fr.elems[i].et \in EventTypes

TypedCallbacks == AllCallbacks \ {"OnMessage", "OnError"}

\* C16: a JSON array frame of n valid events is dispatched element by element
\* in array order: every callback invoked for element i comes before every
\* callback for element i+1, each is given the event of its element, and once
\* the frame is processed the general callback (and, when all are registered,
\* the typed callbacks) has been invoked exactly n times, once per element.
C16_ArrayDispatchedInOrder ==
    \A k \in 1..Len(received) :
        LET fr == received[k]
            n == Len(fr.elems)
            cs == CallsOf(k)
            gen == SelectSeq(cs, LAMBDA e : e.cb = "OnMessage")
            typ == SelectSeq(cs, LAMBDA e : e.cb \in TypedCallbacks)
        IN  ValidArray(fr) =>
              /\ \A a, b \in 1..Len(cs) : a < b => cs[a].i <= cs[b].i
              /\ \A a \in 1..Len(cs) : /\ cs[a].i \in 1..n
                                       /\ cs[a].et = fr.elems[cs[a].i].et
                                       /\ cs[a].cb # "OnError"
              /\ (Processed(k) /\ "OnMessage" \in callbacks)
                    => (Len(gen) = n /\ \A i \in 1..n : gen[i].i = i)
              /\ (Processed(k) /\ TypedCallbacks \subseteq callbacks)
                    => (Len(typ) = n /\ \A i \in 1..n : typ[i].i = i)

W16_TwoElementArrayDispatched ==
    \E k \in 1..Len(received) :
        /\ ValidArray(received[k]) /\ Len(received[k].elems) = 2
        /\ received[k].elems[1] # received[k].elems[2]
        /\ Processed(k)
        /\ callbacks = AllCallbacks
        /\ Len(CallsOf(k)) = 4

\* Frame fr is a text frame that is neither PONG, nor a JSON array, nor a
\* decodable event.
Unparseable(fr) ==
    /\ fr.mt = "text"
    /\ fr.body \notin {"PONG", "array"}
    /\ fr.body = "object" => ~ParseMarketChannelMessage(fr.elems[1]).ok

\* C17: an unparseable frame triggers the error callback exactly once and no
\* message callback; the read loop does not end on it and goes on to the next
\* frame.
C17_UnparseableFrameReportedOnce ==
    /\ [](\A k \in 1..Len(received) :
             (Unparseable(received[k]) /\ Processed(k) /\ "OnError" \in callbacks)
                 => CallsOf(k) = <<Invocation("OnError", k, 1, "error")>>)
    /\ [][\A h \in Handles :
             (/\ pc[<<"rl", h>>] \in {"read", "process"}
              /\ pc'[<<"rl", h>>] # pc[<<"rl", h>>]
              /\ Len(received') > 0
              /\ Unparseable(received'[Len(received')])
              /\ handle' = handle)
                 => (pc'[<<"rl", h>>] \in {"process", "top"} /\ UNCHANGED session)]_vars

\* The raw messages frame fr is split into (none for a skipped frame).
Elements(fr) == IF fr.mt = "text" /\ fr.body # "PONG" THEN RawMessages(fr) ELSE << >>

\* parseAndDispatch has returned for element i of frame k.
Dispatched(k, i) ==
    /\ k \in 1..Len(received)
    /\ i \in 1..Len(Elements(received[k]))
    /\ \A h \in Handles : rx[h].f = k => rx[h].i > i

\* The callbacks invoked for element i of frame k, in order of invocation.
CallsFor(k, i) == SelectSeq(calls, LAMBDA e : e.f = k /\ e.i = i)

\* C18: for each decoded event the typed callback (if registered) is invoked
\* first and the general OnMessage callback (if registered) after it, with the
\* same event; OnMessage is invoked once for every decoded event, whatever its
\* type and whether or not a typed callback is registered.
C18_TypedThenGeneral ==
    \A k \in 1..Len(received) : \A i \in 1..Len(Elements(received[k])) :
        LET raw == Elements(received[k])[i]
            cs == CallsFor(k, i)
            gen == SelectSeq(cs, LAMBDA e : e.cb = "OnMessage")
        IN  (Dispatched(k, i) /\ ParseMarketChannelMessage(raw).ok) =>
              /\ \A a, b \in 1..Len(cs) :
                    (a < b /\ cs[a].cb = "OnMessage") => cs[b].cb \notin TypedCallbacks
              /\ \A a \in 1..Len(cs) : cs[a].et = raw.et
              /\ Len(gen) = (IF "OnMessage" \in callbacks THEN 1 ELSE 0)

W18_TypedThenGeneralInvoked ==
    \E a \in 1..Len(calls) :
        /\ a < Len(calls)
        /\ calls[a].cb \in TypedCallbacks
        /\ calls[a + 1].cb = "OnMessage"
        /\ calls[a + 1].f = calls[a].f /\ calls[a + 1].i = calls[a].i
        /\ calls[a + 1].et = calls[a].et

\* The typed callback that belongs to each event type.
CallbackOfType ==
    [et \in EventTypes |->
        CASE et = "book" -> "OnBook"
          [] et = "price_change" -> "OnPriceChange"
          [] et = "tick_size_change" -> "OnTickSizeChange"
          [] et = "last_trade_price" -> "OnLastTradePrice"]

\* C19: for every decoded event at most one typed callback is invoked; it is
\* the one of the event's type, invoked exactly once when it is registered,
\* and no other typed callback is invoked.
C19_OnlyMatchingTypedCallback ==
    \A k \in 1..Len(received) : \A i \in 1..Len(Elements(received[k])) :
        LET raw == Elements(received[k])[i]
            typ == SelectSeq(CallsFor(k, i), LAMBDA e : e.cb \in TypedCallbacks)
        IN  (Dispatched(k, i) /\ ParseMarketChannelMessage(raw).ok) =>
              /\ Len(typ) = (IF CallbackOfType[raw.et] \in callbacks THEN 1 ELSE 0)
              /\ \A a \in 1..Len(typ) : /\ typ[a].cb = CallbackOfType[raw.et]
                                        /\ typ[a].et = raw.et

W19_LastTradePriceDispatched ==
    /\ Len(received) >= 1
    /\ received[1] = [mt |-> "text", body |-> "object",
                      elems |-> <<[et |-> "last_trade_price"]>>]
    /\ callbacks = AllCallbacks
    /\ CallsFor(1, 1) = <<Invocation("OnLastTradePrice", 1, 1, "last_trade_price"),
                          Invocation("OnMessage", 1, 1, "last_trade_price")>>

\* The state a Disconnect() leaves: no handle, reconnect disabled, no
\* heartbeat ticker, no reconnect timer.
Disconnected ==
    conn = 0 /\ ~shouldReconnect /\ pingTicker = 0 /\ reconnectTimer = 0

\* Task c takes a step of Disconnect().
DisconnectStepOf(c) ==
    \/ pc[c] = "idle" /\ pc'[c] = "D_cleanup"
    \/ pc[c] = "D_cleanup" /\ pc'[c] = "D_close"
    \/ pc[c] = "D_close" /\ pc'[c] = "idle"

\* C20: Disconnect() is idempotent.  Each of its three sections establishes
\* its part of the disconnected state and touches nothing else, so a call
\* ends with no handle, reconnect disabled, no ticker and no timer; and a call
\* made in that state (a second call in a row, or a call on a client that is
\* not connected) changes nothing, closes nothing and fails nothing.
C20_DisconnectIsIdempotent ==
    [][\A c \in Callers :
          /\ (pc[c] = "idle" /\ pc'[c] = "D_cleanup")
                => /\ ~shouldReconnect'
                   /\ UNCHANGED <<conn, handle, pingTicker, reconnectTimer, tickerStopped>>
          /\ (pc[c] = "D_cleanup" /\ pc'[c] = "D_close")
                => /\ pingTicker' = 0 /\ reconnectTimer' = 0
                   /\ UNCHANGED <<conn, handle, shouldReconnect>>
          /\ (pc[c] = "D_close" /\ pc'[c] = "idle")
                => /\ conn' = 0
                   /\ ret'[c] = "none"
                   /\ UNCHANGED <<shouldReconnect, pingTicker, reconnectTimer, tickerStopped>>
          /\ (DisconnectStepOf(c) /\ Disconnected)
                => /\ UNCHANGED <<session, mu>>
                   /\ ret'[c] = "none"
                   /\ \A t \in Tasks \ {c} : pc'[t] = pc[t]]_vars

W20_SecondDisconnect ==
    \E c \in Callers :
        /\ pc[c] = "D_close" /\ discReturned /\ Disconnected
        /\ \E h \in Handles : handle[h] = "closed"

\* The session has been connected and is disconnected: a read loop was
\* started, no open transport is installed, and every read loop has run
\* disconnect handling to its end.
SessionDisconnected ==
    /\ \E h \in Handles : pc[<<"rl", h>>] = "done"
    /\ conn = 0 \/ handle[conn] # "open"
    /\ \A h \in Handles : pc[<<"rl", h>>] \in {"unused", "done"}

\* C21: Wait() returns once the session is disconnected: when the session has
\* been disconnected (by Disconnect(), or by a transport drop with no
\* reconnect to follow) and the client has come to rest, no caller is still
\* blocked in Wait().
C21_WaitReturnsOnceDisconnected ==
    (SessionDisconnected /\ ~ENABLED EngineStep) => \A c \in Callers : pc[c] # "Wait"

\* A Connect() call of task t is in flight: it has passed the guard and has
\* neither failed nor installed its handle yet (lines 133-176).
InFlight(t) == pc[t] \in {"derive", "dial"}

\* C22: while one Connect() call is in flight, every other Connect() call, of
\* the caller or of a reconnect timer, returns success at its guard: it does
\* not dial, installs nothing and changes nothing of the session.  So at most
\* one Connect() is deriving or dialing at any time, and the flag that marks
\* it is set for as long as it is.
C22_OneConnectInFlight ==
    /\ [][\A t \in Callers \cup Timers :
             (/\ pc[t] = "Connect"
              /\ pc'[t] # pc[t]
              /\ \E u \in (Callers \cup Timers) \ {t} : InFlight(u))
                 => /\ pc'[t] = Returned(t)
                    /\ t \in Callers => ret'[t] = "nil"
                    /\ UNCHANGED <<session, mu, lastFrame>>
                    /\ \A u \in Tasks \ {t} : pc'[u] = pc[u]]_vars
    /\ [](\A t, u \in Callers \cup Timers : (InFlight(t) /\ InFlight(u)) => t = u)
    /\ []((\E t \in Callers \cup Timers : InFlight(t)) => isConnecting)

W22_ConnectWhileInFlight ==
    \E t \in Timers : \E c \in Callers : pc[t] = "Connect" /\ pc[c] = "dial" /\ isConnecting

\* handleMessages h has left its loop and run the cleanup and the OnDisconnect
\* of handleDisconnect.
ReadLoopEnded(h) == pc[<<"rl", h>>] \in {"hd_check", "sr_guard", "sr_callback", "sr_arm", "done"}

\* C23: once the read loop of a connection has ended on a transport read
\* error, the handle of that connection is released: it is no longer the
\* installed one, so IsConnected() is false until a later dial installs a new
\* handle.
C23_ReadErrorReleasesHandle ==
    \A h \in Handles : (ReadLoopEnded(h) /\ handle[h] = "dropped") => conn # h

\* C24: the Subscription Set is a set: starting from a duplicate-free list,
\* after any sequence of Subscribe and Unsubscribe calls no asset id occurs in
\* it twice, also when Subscribe is given an id that is already subscribed.
C24_SubscriptionSetHasNoDuplicates == NoDuplicates(assetIDs)

\* C25: each entry into ReconnectPending increments the attempt counter by
\* exactly one; OnReconnect is then invoked once, with the incremented value,
\* while the timer of this attempt is not armed yet; only then is the timer
\* armed, and the redial of the attempt starts only from the armed timer
\* firing.  Nothing else ever increases the counter.
C25_CallbackBeforeDelay ==
    /\ [][\A h \in Handles :
             LET rl == <<"rl", h>>
                 tm == <<"tm", h>>
             IN  /\ (pc[rl] = "sr_guard" /\ pc'[rl] = "sr_callback")
                       => /\ reconnectAttempts' = reconnectAttempts + 1
                          /\ loc'[rl].attempt = reconnectAttempts'
                          /\ invoked' = invoked
                          /\ pc[tm] = "unused" /\ pc'[tm] = "unused"
                 /\ (pc[rl] = "sr_callback" /\ pc'[rl] = "sr_arm")
                       => /\ invoked'[h].OnReconnect = <<loc[rl].attempt>>
                          /\ invoked[h].OnReconnect = << >>
                          /\ reconnectAttempts' = reconnectAttempts
                          /\ pc[tm] = "unused" /\ pc'[tm] = "unused"
                          /\ reconnectTimer' = reconnectTimer
                 /\ (pc[rl] = "sr_arm" /\ pc'[rl] # "sr_arm")
                       => /\ pc'[tm] = "armed"
                          /\ Len(invoked[h].OnReconnect) = 1
                          /\ invoked' = invoked
                          /\ reconnectAttempts' = reconnectAttempts
                 /\ (pc[tm] # "Connect" /\ pc'[tm] = "Connect")
                       => /\ pc[tm] = "armed"
                          /\ Len(invoked[h].OnReconnect) = 1
                 /\ (pc[tm] = "unused" /\ pc'[tm] # "unused") => pc[rl] = "sr_arm"]_vars
    /\ [][reconnectAttempts' > reconnectAttempts
             => \E h \in Handles : /\ pc[<<"rl", h>>] = "sr_guard"
                                   /\ pc'[<<"rl", h>>] = "sr_callback"]_vars
    /\ [](\A h \in Handles :
             /\ Len(invoked[h].OnReconnect) <= 1
             /\ pc[<<"tm", h>>] # "unused" => Len(invoked[h].OnReconnect) = 1)

W25_RedialAfterCallback ==
    \E h \in Handles : /\ pc[<<"tm", h>>] = "dial"
                       /\ invoked[h].OnReconnect = <<1>>
                       /\ invoked[h].OnDisconnect = 1

\* C26: with AutoReconnect = false no reconnect is ever scheduled, whatever
\* the sequence of connects, transport drops and disconnects: no read loop
\* enters scheduleReconnect, no reconnect timer exists or is recorded,
\* OnReconnect is never invoked and the attempt counter stays 0.
C26_NoReconnectWhenDisabled ==
    ~opts.AutoReconnect =>
        /\ reconnectAttempts = 0
        /\ reconnectTimer = 0
        /\ \A h \in Handles :
              /\ pc[<<"tm", h>>] = "unused"
              /\ pc[<<"rl", h>>] \notin {"sr_guard", "sr_callback", "sr_arm"}
              /\ invoked[h].OnReconnect = << >>

W26_DropWithoutReconnect ==
    /\ ~opts.AutoReconnect /\ shouldReconnect
    /\ \E h \in Handles : /\ pc[<<"rl", h>>] = "done" /\ handle[h] = "dropped"
                          /\ invoked[h].OnDisconnect = 1

\* handleMessages h has left its loop (lines 290, 298): the deferred
\* handleDisconnect has been called, or has returned.
ReadLoopTerminated(h) == pc[<<"rl", h>>] \notin {"unused", "top", "read", "process"}

\* C27: every read-loop termination runs disconnect handling exactly once.
\* A read loop invokes OnDisconnect at most once and only after leaving its
\* loop; the invocation comes before the hand-off to the Reconnection
\* Controller (a read loop inside scheduleReconnect, its OnReconnect and its
\* timer all have the OnDisconnect of that loop behind them); and no read loop
\* that has left its loop is left without its OnDisconnect: once the client
\* has come to rest, each of them has invoked it exactly once.
C27_DisconnectHandledOnce ==
    /\ [](\A h \in Handles :
             /\ invoked[h].OnDisconnect <= 1
             /\ ~ReadLoopTerminated(h) => invoked[h].OnDisconnect = 0
             /\ pc[<<"rl", h>>] \in {"sr_guard", "sr_callback", "sr_arm"}
                   => invoked[h].OnDisconnect = 1
             /\ invoked[h].OnReconnect # << >> => invoked[h].OnDisconnect = 1
             /\ pc[<<"tm", h>>] # "unused" => invoked[h].OnDisconnect = 1)
    /\ []((~ENABLED EngineStep)
             => \A h \in Handles : ReadLoopTerminated(h) => invoked[h].OnDisconnect = 1)

\* C28: a PING send failure ends the heartbeat loop and is reported through
\* the error callback exactly once.  The step that fails reports one error and
\* ends the loop for good; it closes nothing, leaves ws.conn (so IsConnected())
\* and the reconnect state as they are, invokes neither OnDisconnect nor
\* OnReconnect and moves no other task.
C28_PingFailureOnlyReported ==
    /\ [][\A h \in Handles :
             LET pl == <<"pl", h>>
             IN  /\ (pc[pl] = "ping" /\ pc'[pl] = "done")
                       => /\ invoked'[h].OnError = invoked[h].OnError + 1
                          /\ UNCHANGED <<conn, handle, reconnectAttempts, reconnectTimer,
                                         shouldReconnect, isConnecting, pingTicker, mu>>
                          /\ \A g \in Handles :
                                /\ invoked'[g].OnDisconnect = invoked[g].OnDisconnect
                                /\ invoked'[g].OnReconnect = invoked[g].OnReconnect
                                /\ g # h => invoked'[g].OnError = invoked[g].OnError
                          /\ \A t \in Tasks \ {pl} : pc'[t] = pc[t]
                 /\ (pc[pl] = "ping" /\ pc'[pl] # "ping") => pc'[pl] \in {"wait", "done"}
                 /\ pc[pl] = "done" => pc'[pl] = "done"
                 /\ invoked'[h].OnError # invoked[h].OnError
                       => (pc[pl] = "ping" /\ pc'[pl] = "done")]_vars
    /\ [](\A h \in Handles :
             invoked[h].OnError = (IF pc[<<"pl", h>>] = "done" THEN 1 ELSE 0))

W28_PingFailedStillConnected ==
    \E h \in Handles : /\ pc[<<"pl", h>>] = "done"
                       /\ invoked[h].OnError = 1
                       /\ conn = h /\ handle[h] = "dropped"
                       /\ invoked[h].OnDisconnect = 0
                       /\ pc[<<"rl", h>>] = "read"

\* Task t is inside a write on the transport (conn.WriteJSON of
\* sendSubscription, conn.WriteMessage of pingLoop), made after the lock was
\* released.
Writing(t) == pc[t] \in {"C_write", "S_write", "ping"}

\* C29: the live connection handle is used only under the lock, so no two
\* tasks write to the same connection at the same time: a heartbeat PING
\* write, the subscribe write of Subscribe() and the subscribe write of
\* Connect() never overlap on one connection.
C29_WritesNeverOverlap ==
    \A t, u \in Tasks :
        (t # u /\ Writing(t) /\ Writing(u)) => loc[t].sc # loc[u].sc

\* The reconnect timers that are armed: created by time.AfterFunc, not fired
\* and not stopped.
ArmedTimers == {h \in Handles : pc[<<"tm", h>>] = "armed"}

\* C30: at every moment at most one reconnect timer is armed, and an armed
\* timer is the one recorded in ws.reconnectTimer, so that cleanup() and
\* Disconnect() can stop it.
C30_OneRecordedTimer ==
    /\ Cardinality(ArmedTimers) <= 1
    /\ \A h \in ArmedTimers : reconnectTimer = h

\* The read loops that read from the installed connection.
LiveReaders == {h \in Handles : pc[<<"rl", h>>] \in {"read", "process"}
                                   /\ conn # 0 /\ loc[<<"rl", h>>].sc = conn}

\* The heartbeat loops whose ticker is running: each tick makes them send a
\* PING on the installed connection.
TickingPingLoops == {h \in Handles : pc[<<"pl", h>>] \in {"wait", "ping"} /\ ~tickerStopped[h]}

\* C31: at every moment at most one read loop reads from the live connection
\* and at most one heartbeat loop sends PINGs on it, whatever the sequence of
\* Connect(), Disconnect(), transport drops and reconnects.
C31_OneReaderOneHeartbeat ==
    Cardinality(LiveReaders) <= 1 /\ Cardinality(TickingPingLoops) <= 1

\* C32: a successful Connect() goes in this order: the subscribe frame with
\* the full current Subscription Set is written while neither loop of the new
\* connection has been started; then the read loop and the heartbeat loop are
\* started; then OnConnect is invoked and nil returned.  OnConnect is invoked
\* only there, once per Connect() that got this far, and no frame is read and
\* no event dispatched before a subscribe frame has been sent.
C32_ConnectOrder ==
    /\ [][\A t \in Callers \cup Timers :
             LET rl == <<"rl", loc[t].h>>
                 pl == <<"pl", loc[t].h>>
             IN  /\ (pc[t] = "C_write" /\ pc'[t] = "C_start")
                       => /\ lastFrame' = assetIDs
                          /\ pc[rl] = "unused" /\ pc'[rl] = "unused"
                          /\ pc[pl] = "unused" /\ pc'[pl] = "unused"
                          /\ invoked' = invoked
                 /\ (pc[t] = "C_start" /\ pc'[t] # "C_start")
                       => /\ pc'[t] = "C_onConnect"
                          /\ pc[rl] = "unused" /\ pc'[rl] = "top"
                          /\ pc[pl] = "unused" /\ pc'[pl] = "start"
                          /\ lastFrame' = lastFrame
                          /\ invoked' = invoked
                          /\ invoked[loc[t].h].OnConnect = 0
                 /\ (pc[t] = "C_onConnect" /\ pc'[t] # "C_onConnect")
                       => /\ pc'[t] = Returned(t)
                          /\ t \in Callers => ret'[t] = "nil"
                          /\ invoked[loc[t].h].OnConnect = 0
                          /\ invoked'[loc[t].h].OnConnect = 1
                          /\ pc[rl] # "unused" /\ pc[pl] # "unused"]_vars
    /\ [][\A h \in Handles :
             invoked'[h].OnConnect # invoked[h].OnConnect
                 => \E t \in Callers \cup Timers :
                       pc[t] = "C_onConnect" /\ loc[t].h = h /\ pc'[t] = Returned(t)]_vars
    /\ [](\A h \in Handles : invoked[h].OnConnect <= 1)
    /\ []((received # << >> \/ calls # << >>) => lastFrame # NoFrame)

W32_ConnectedAndDispatching ==
    /\ \E c \in Callers : pc[c] = "idle" /\ ret[c] = "nil"
    /\ invoked[1].OnConnect = 1
    /\ lastFrame = <<"A", "B">>
    /\ calls # << >>

\* C33: the session is connected only after the dial and the initial subscribe
\* send both succeeded: a Connect() whose subscribe send fails returns an
\* error and leaves IsConnected() false.
C33_FailedSubscribeSendNotConnected ==
    [][\A t \in Callers \cup Timers :
          (pc[t] = "C_write" /\ pc'[t] = Returned(t))
              => /\ t \in Callers => ret'[t] = "errSend"
                 /\ ~IsConnected']_vars

\* C34: within an array frame each sub-message is decoded and dispatched on
\* its own.  Once the frame is processed, an element that fails to decode has
\* triggered the error callback once (when registered) and nothing else; every
\* decodable element, before or after a failing one, has been given to the
\* general callback once and to its typed callback once (when registered) and
\* has triggered no error; and the callbacks come in array order.
C34_BadElementSkipped ==
    \A k \in 1..Len(received) :
        LET fr == received[k]
            cs == CallsOf(k)
        IN  (fr.mt = "text" /\ fr.body = "array" /\ Processed(k)) =>
              /\ \A a, b \in 1..Len(cs) : a < b => cs[a].i <= cs[b].i
              /\ \A i \in 1..Len(fr.elems) :
                    LET ci == CallsFor(k, i)
                        n(cb) == Len(SelectSeq(ci, LAMBDA e : e.cb = cb))
                        reg(cb) == IF cb \in callbacks THEN 1 ELSE 0
                    IN  IF fr.elems[i].et \in EventTypes
                        THEN /\ n("OnError") = 0
                             /\ n("OnMessage") = reg("OnMessage")
                             /\ n(CallbackOfType[fr.elems[i].et])
                                   = reg(CallbackOfType[fr.elems[i].et])
                             /\ \A a \in 1..Len(ci) : ci[a].et = fr.elems[i].et
                        ELSE ci = (IF "OnError" \in callbacks
                                   THEN <<Invocation("OnError", k, i, "error")>>
                                   ELSE << >>)

W34_ValidAfterBadElement ==
    \E k \in 1..Len(received) :
        /\ received[k].elems = <<[et |-> "unknown"], [et |-> "book"]>>
        /\ Processed(k)
        /\ CallsOf(k) = <<Invocation("OnError", k, 1, "error"),
                          Invocation("OnBook", k, 2, "book"),
                          Invocation("OnMessage", k, 2, "book")>>

\* C35: events are dispatched in the order their frames are received, on the
\* read loop itself: when frame k+1 is read every callback for frame k has
\* returned, at most one frame is being processed at any time, the callbacks
\* invoked are in frame order, and no event is dispatched twice.
C35_FramesDispatchedInOrder ==
    /\ \A k \in 1..Len(received) : k < Len(received) => Processed(k)
    /\ Cardinality({h \in Handles : rx[h].f # 0}) <= 1
    /\ \A a, b \in 1..Len(calls) :
          a < b => /\ calls[a].f <= calls[b].f
                   /\ calls[a] # calls[b]

\* Nothing of the reconnect cycle is under way: no read loop is reading or
\* handling a disconnect, and no reconnect timer is armed or running Connect().
ReconnectCycleIdle ==
    /\ \A h \in Handles : pc[<<"rl", h>>] \in {"unused", "done"}
    /\ \A t \in Timers : pc[t] \in {"unused", "done", "stopped"}

C37_ConcurrentSubscribesSendNewest ==
    /\ []((/\ \A c \in AppTasks : pc[c] = "idle" /\ ret[c] \in {"nil", "none"}
           /\ IsConnected /\ handle[conn] = "open")
              => lastFrame = assetIDs)
    /\ [][\A t \in AppTasks :
             (pc[t] = "S_write" /\ pc'[t] = "idle" /\ ret'[t] = "nil")
                 => Len(lastFrame') >= Len(lastFrame)]_vars

\* C38: with MaxReconnectAttempts = N > 0 the attempt counter stays within
\* 0..N and every attempt number passed to OnReconnect is in 1..N; with
\* MaxReconnectAttempts = 0 scheduleReconnect never refuses an attempt: every
\* read loop that enters it counts the attempt and goes on to OnReconnect.
C38_AttemptsWithinCap ==
    /\ [](opts.MaxReconnectAttempts > 0
             => /\ reconnectAttempts \in 0..opts.MaxReconnectAttempts
                /\ \A h \in Handles : \A k \in 1..Len(invoked[h].OnReconnect) :
                      invoked[h].OnReconnect[k] \in 1..opts.MaxReconnectAttempts)
    /\ [][\A h \in Handles :
             (opts.MaxReconnectAttempts = 0 /\ pc[<<"rl", h>>] = "sr_guard"
                                            /\ pc'[<<"rl", h>>] # "sr_guard")
                 => /\ pc'[<<"rl", h>>] = "sr_callback"
                    /\ reconnectAttempts' = reconnectAttempts + 1]_vars

\* With a cap of 1 one attempt has been counted and announced, the counter
\* is at the cap, and a second read loop has entered scheduleReconnect.
W38_SecondLoopAtCap ==
    /\ opts.MaxReconnectAttempts = 1 /\ reconnectAttempts = 1
    /\ \E h, g \in Handles :
          /\ invoked[h].OnReconnect = <<1>>
          /\ g # h /\ pc[<<"rl", g>>] = "sr_guard"

\* The ids of list that are not among those of unsub, in their order.
Others(list, unsub) ==
    SelectSeq(list, LAMBDA x : \A j \in 1..Len(unsub) : unsub[j] # x)

\* C39: Unsubscribe(ids) removes every occurrence of each listed id from the
\* Subscription Set and keeps all other ids in their original relative order;
\* it changes nothing when none of the ids is subscribed; and a second
\* Unsubscribe(ids) yields the same set as the first.  Every Unsubscribe step
\* of the client replaces the set by that result.
C39_UnsubscribeRemovesAllKeepsOrder ==
    /\ [](\A unsub \in UnsubscribeLists :
             LET r == Filter(assetIDs, unsub)
             IN  /\ \A k \in 1..Len(r) : \A j \in 1..Len(unsub) : r[k] # unsub[j]
                 /\ r = Others(assetIDs, unsub)
                 /\ (\A j \in 1..Len(unsub) : ~Contains(assetIDs, unsub[j])) => r = assetIDs
                 /\ Filter(r, unsub) = r)
    /\ [][(pc' = pc /\ assetIDs' # assetIDs)
             => \E unsub \in UnsubscribeLists :
                   /\ \E j \in 1..Len(unsub) : Contains(assetIDs, unsub[j])
                   /\ assetIDs' = Others(assetIDs, unsub)]_vars

\* An Unsubscribe has removed every id but B and C from a full list (the
\* client starts with MaxLen ids), and B precedes C as it did before.
W39_RemovedKeepingOrder ==
    /\ assetIDs = <<"B", "C">>
    /\ \A c \in Callers : pc[c] = "idle"

====
